---- MODULE Spec2Model ----
(***************************************************************************)
(* Model of the piano-midi web application:                                *)
(*   - parseMidiFile and its byte readers (src/web/lib/audio-engine.ts),    *)
(*     run one step per header / track chunk / event-loop iteration;       *)
(*   - the Home component's playback loop and handlers                      *)
(*     (src/web/app/page.tsx).                                              *)
(*                                                                          *)
(* Seconds.  ticksToSeconds computes (ticks / ticksPerBeat) * (tempo/1e6).  *)
(* ticksPerBeat is fixed for one decode, so every seconds value of the      *)
(* decoder is kept as the exact integer ticks * tempo, i.e. in units of     *)
(* 1 / (ticksPerBeat * 1000000) second.  Order, equality, sums and          *)
(* differences of seconds values are those of these integers.               *)
(***************************************************************************)
EXTENDS Integers, Sequences, FiniteSets, TLC

VARIABLES
    src,                    \* how the input file was written (tracks of events, framing)
    buf,                    \* the bytes of the File handed to parseMidiFile
    dec,                    \* the frame of parseMidiFile: its locals and its position
    midiData,               \* Home: useState<MidiData | null>
    isPlaying,              \* Home: useState(false)
    currentTime,            \* Home: useState(0)
    speed,                  \* Home: useState(1), in steps of 0.25
    activeNotes,            \* Home: useState<Set<number>>
    audioReady,             \* Home: useState(false)
    scheduledNotes,         \* Home: scheduledNotesRef, a set of note objects (indices)
    currentlyPlayingNotes,  \* the playback effect's closure-local Set<number>
    newTime,                \* tick: the newTime of the latest tick
    played,                 \* the notes handed to AudioEngine.playNote by the latest tick
    dispatchCount,          \* per note, the playNote calls of the current play-through
    afterSeek,              \* the time handleSeek was called with, until the next tick
    queued,                 \* a setCurrentTime updater React has queued but not yet run
    audioEngine,            \* Home: audioEngineRef.current and the voices it has started
    player                  \* MidiPlayer: the state of the rhythm-game component

parseVars == <<src, buf, dec>>
homeVars == <<midiData, isPlaying, currentTime, speed, activeNotes, audioReady>>
loopVars == <<scheduledNotes, currentlyPlayingNotes, newTime, played, dispatchCount,
              afterSeek, queued>>
sinkVars == <<audioEngine>>
gameVars == <<player>>
vars == <<src, buf, dec, midiData, isPlaying, currentTime, speed, activeNotes,
          audioReady, scheduledNotes, currentlyPlayingNotes, newTime, played,
          dispatchCount, afterSeek, queued, audioEngine, player>>

----------------------------------------------------------------------------
(* Bounds of the input space *)

\* events per generated track
MaxEvents == 3
\* events of the first track in files with a framing defect
MaxFramedEvents == 2
\* bytes cut off the end of a truncated file
MaxCut == 2
\* notes of a song handed to the playback loop
MaxNotes == 2
\* wall-clock time between two animation frames
MaxDt == 2
\* voices (oscillator groups) alive in the audio graph at one time
MaxVoices == 2
\* clean-up timers of noteOff pending for one pitch at one time
MaxTimers == 2
\* notes of a song of the rhythm game
MaxGameNotes == 2
\* time between two animation frames of the rhythm game, in units of 0.05 s
MaxGameDt == 3
\* MIDI messages handled between two renders
MaxUnrendered == 2
\* length of the run of perfect hits that builds the combo up
MaxCombo == 139

----------------------------------------------------------------------------
(* Generic helpers *)

Max(a, b) == IF a >= b THEN a ELSE b

Min(a, b) == IF a <= b THEN a ELSE b

MinOf(S) == CHOOSE x \in S : \A y \in S : x <= y

MaxOf(S) == CHOOSE x \in S : \A y \in S : y <= x

\* the null of JavaScript, as a record so that it compares with MidiData records
Null == [null |-> TRUE]

RangeError == -1

RECURSIVE Flatten(_)
Flatten(ss) == IF ss = <<>> THEN <<>> ELSE Head(ss) \o Flatten(Tail(ss))

\* sequences over S of length 0..n
SeqsUpTo(S, n) == UNION {[1..k -> S] : k \in 0..n}

----------------------------------------------------------------------------
(* DataView reads.  Offsets are 0-based as in the source; a read outside    *)
(* the buffer throws a RangeError.                                          *)

\* getUint8 of a lenient reader that yields 0 outside the buffer
getUint8Lenient(b, o) == IF o >= 0 /\ o < Len(b) THEN b[o + 1] ELSE 0

getUint8(b, o) == IF o >= 0 /\ o < Len(b) THEN b[o + 1] ELSE RangeError

getUint16(b, o) ==
    IF getUint8(b, o) = RangeError \/ getUint8(b, o + 1) = RangeError
    THEN RangeError
    ELSE getUint8(b, o) * 256 + getUint8(b, o + 1)

getUint32(b, o) ==
    IF getUint16(b, o) = RangeError \/ getUint16(b, o + 2) = RangeError
    THEN RangeError
    ELSE getUint16(b, o) * 65536 + getUint16(b, o + 2)

\* what readString yields here when one of its reads throws
StringError == <<RangeError>>

readString(b, o, length) ==
    IF \E i \in 0..(length - 1) : getUint8(b, o + i) = RangeError
    THEN StringError
    ELSE [i \in 1..length |-> getUint8(b, o + i - 1)]

\* (value << 7) of JavaScript: the product taken in 32 bits, two's complement
Shl7(value) ==
    LET low == value % 33554432
    IN  IF low >= 16777216 THEN (low - 33554432) * 128 ELSE low * 128

RECURSIVE vlqLoop(_, _, _, _)
vlqLoop(b, o, value, bytesRead) ==
    LET byte == getUint8(b, o + bytesRead)
    IN  IF byte = RangeError
        THEN [value |-> value, bytesRead |-> bytesRead + 1, ok |-> FALSE]
        ELSE LET v == Shl7(value) + (byte % 128)
             IN  IF byte >= 128
                 THEN vlqLoop(b, o, v, bytesRead + 1)
                 ELSE [value |-> v, bytesRead |-> bytesRead + 1, ok |-> TRUE]

readVariableLength(b, o) == vlqLoop(b, o, 0, 0)

ticksToSeconds(ticks, ticksPerBeat, tempo) == ticks * tempo

----------------------------------------------------------------------------
(* parseMidiFile.  dec.pc is the position in the function:                  *)
(*   "header"  before the header chunk is read                              *)
(*   "track"   at the head of the for loop over tracks                      *)
(*   "event"   at the head of the while loop over the events of a track     *)
(*   "done"    returned, dec.result is the MidiData                         *)
(*   "failed"  an Error or RangeError was thrown (the promise rejects)      *)
(* dec.elapsed and dec.maxRead are observers, not locals of the function:   *)
(* elapsed sums every delta-time of the track multiplied by the tempo that  *)
(* was current when the delta was read; maxRead is the highest offset       *)
(* handed to getUint8 so far.  eventType is 0 until the track's first event *)
(* and is not updated by an iteration that throws.                          *)

MThd == <<77, 84, 104, 100>>

MTrk == <<77, 84, 114, 107>>

Empty == <<>>

DecStart ==
    [pc |-> "header", offset |-> 0, trackCount |-> 0, ticksPerBeat |-> 0,
     track |-> 0, trackEnd |-> 0, time |-> 0, currentTempo |-> 0,
     activeNotes |-> Empty, notes |-> <<>>, maxTime |-> 0, tempoChanges |-> <<>>,
     eventType |-> 0, timeInSeconds |-> 0, result |-> Null,
     elapsed |-> 0, maxRead |-> -1]

Throw(s, hi) == [s EXCEPT !.pc = "failed", !.maxRead = Max(@, hi)]

\* lines 320-344: the header chunk and the initialisation of the accumulators
ReadHeader(b, s) ==
    LET headerChunkId == readString(b, 0, 4)
        headerLength == getUint32(b, 4)
        format == getUint16(b, 8)
        trackCount == getUint16(b, 10)
        division == getUint16(b, 12)
    IN  IF headerChunkId = StringError THEN Throw(s, Len(b))
        ELSE IF headerChunkId # MThd THEN Throw(s, 3)
        ELSE IF RangeError \in {headerLength, format, trackCount, division}
        THEN Throw(s, Len(b))
        ELSE [s EXCEPT !.pc = "track", !.offset = 14,
                       !.trackCount = trackCount,
                       !.ticksPerBeat = division % 32768,
                       !.notes = <<>>, !.maxTime = 0, !.tempoChanges = <<>>,
                       !.currentTempo = 500000, !.track = 0,
                       !.maxRead = Max(@, 13)]

\* ReadTrackChunk with the Map of open records declared outside the for loop
ReadTrackChunkKeepsOpen(b, s) ==
    LET trackChunkId == readString(b, s.offset, 4)
        trackLength == getUint32(b, s.offset + 4)
    IN  IF trackChunkId = StringError THEN Throw(s, Max(s.offset, Len(b)))
        ELSE IF trackChunkId # MTrk THEN Throw(s, s.offset + 3)
        ELSE IF trackLength = RangeError THEN Throw(s, Len(b))
        ELSE [s EXCEPT !.pc = "event", !.offset = s.offset + 8,
                       !.trackEnd = s.offset + 8 + trackLength,
                       !.time = 0, !.elapsed = 0,
                       !.eventType = 0,
                       !.maxRead = Max(@, s.offset + 7)]

\* lines 347-359: the head of the for loop and the track chunk header
ReadTrackChunk(b, s) ==
    LET trackChunkId == readString(b, s.offset, 4)
        trackLength == getUint32(b, s.offset + 4)
    IN  IF trackChunkId = StringError THEN Throw(s, Max(s.offset, Len(b)))
        ELSE IF trackChunkId # MTrk THEN Throw(s, s.offset + 3)
        ELSE IF trackLength = RangeError THEN Throw(s, Len(b))
        ELSE [s EXCEPT !.pc = "event", !.offset = s.offset + 8,
                       !.trackEnd = s.offset + 8 + trackLength,
                       !.time = 0, !.activeNotes = Empty, !.elapsed = 0,
                       !.eventType = 0,
                       !.maxRead = Max(@, s.offset + 7)]

\* lines 361, 464-465: the while condition is false, the for loop steps on
EndTrack(s) == [s EXCEPT !.pc = "track", !.track = s.track + 1]

\* lines 366-376: the status byte, running status, command and channel
HeadAfterStatus(b, v, o1, first) ==
    LET running == first < 128
        o2 == IF running THEN o1 ELSE o1 + 1
        eventType == IF running THEN getUint8(b, o2 - 1) ELSE first
    IN  [ok |-> v.ok /\ first # RangeError,
         hi |-> IF v.ok THEN o1 ELSE o1 - 1,
         deltaTime |-> v.value,
         offset |-> o2,
         eventType |-> eventType,
         command |-> (eventType \div 16) * 16,
         channel |-> eventType % 16]

\* lines 362-363: the delta-time moves the cursor
HeadAfterDelta(b, offset, v) ==
    HeadAfterStatus(b, v, offset + v.bytesRead, getUint8(b, offset + v.bytesRead))

\* lines 362-376: delta-time, status byte, running status
EventHead(b, s) == HeadAfterDelta(b, s.offset, readVariableLength(b, s.offset))

\* activeNotes.set(pitch, record)
MapSet(m, k, r) == [q \in (DOMAIN m) \cup {k} |-> IF q = k THEN r ELSE m[q]]

\* activeNotes.delete(pitch)
MapDelete(m, k) == [q \in (DOMAIN m) \ {k} |-> m[q]]

\* lines 391-403 and 412-424: close the open record of pitch, if there is one
CloseNote(s, pitch, timeInSeconds, channel) ==
    IF pitch \in DOMAIN s.activeNotes
    THEN LET noteOn == s.activeNotes[pitch]
             duration == timeInSeconds - noteOn.startTime
         IN  [s EXCEPT !.notes = Append(@, [pitch |-> pitch,
                                            startTime |-> noteOn.startTime,
                                            duration |-> duration,
                                            velocity |-> noteOn.velocity,
                                            channel |-> noteOn.channel]),
                       !.activeNotes = MapDelete(@, pitch),
                       !.maxTime = Max(@, noteOn.startTime + duration)]
    ELSE s

\* NoteOnBranch without the velocity test: every Note-On opens a record
NoteOnBranchAlwaysOpens(b, s, h) ==
    LET pitch == getUint8(b, h.offset)
        velocity == getUint8(b, h.offset + 1)
        timeInSeconds == ticksToSeconds(s.time, s.ticksPerBeat, s.currentTempo)
    IN  IF pitch = RangeError \/ velocity = RangeError THEN Throw(s, Len(b))
        ELSE [s EXCEPT !.offset = h.offset + 2, !.timeInSeconds = timeInSeconds,
                       !.maxRead = Max(@, h.offset + 1),
                       !.activeNotes =
                           MapSet(@, pitch, [startTime |-> timeInSeconds,
                                             velocity |-> velocity,
                                             channel |-> h.channel])]

\* lines 378-404
NoteOnBranch(b, s, h) ==
    LET pitch == getUint8(b, h.offset)
        velocity == getUint8(b, h.offset + 1)
        timeInSeconds == ticksToSeconds(s.time, s.ticksPerBeat, s.currentTempo)
        s1 == [s EXCEPT !.offset = h.offset + 2, !.timeInSeconds = timeInSeconds,
                        !.maxRead = Max(@, h.offset + 1)]
    IN  IF pitch = RangeError \/ velocity = RangeError THEN Throw(s, Len(b))
        ELSE IF velocity > 0
        THEN [s1 EXCEPT !.activeNotes =
                 MapSet(@, pitch, [startTime |-> timeInSeconds,
                                   velocity |-> velocity,
                                   channel |-> h.channel])]
        ELSE CloseNote(s1, pitch, timeInSeconds, h.channel)

\* lines 405-424
NoteOffBranch(b, s, h) ==
    LET pitch == getUint8(b, h.offset)
        timeInSeconds == ticksToSeconds(s.time, s.ticksPerBeat, s.currentTempo)
        s1 == [s EXCEPT !.offset = h.offset + 2, !.timeInSeconds = timeInSeconds,
                        !.maxRead = Max(@, h.offset)]
    IN  IF pitch = RangeError THEN Throw(s, Len(b))
        ELSE CloseNote(s1, pitch, timeInSeconds, h.channel)

\* lines 425-439: the five channel messages whose data bytes are skipped unread
SkipBranch(s, h) ==
    [s EXCEPT !.offset = h.offset + (IF h.command \in {192, 208} THEN 1 ELSE 2)]

\* lines 440-458
MetaBranch(b, s, h) ==
    LET metaType == getUint8(b, h.offset)
        m == readVariableLength(b, h.offset + 1)
        o == h.offset + 1 + m.bytesRead
        b0 == getUint8(b, o)
        b1 == getUint8(b, o + 1)
        b2 == getUint8(b, o + 2)
        tempo == b0 * 65536 + b1 * 256 + b2
    IN  IF metaType = RangeError \/ ~m.ok THEN Throw(s, Len(b))
        ELSE IF metaType = 81 /\ m.value = 3
        THEN IF RangeError \in {b0, b1, b2} THEN Throw(s, Max(o, Len(b)))
             ELSE [s EXCEPT !.currentTempo = tempo,
                            !.tempoChanges =
                                Append(@, [time |-> ticksToSeconds(s.time, s.ticksPerBeat, tempo),
                                           tempo |-> tempo]),
                            !.offset = o + m.value,
                            !.maxRead = Max(@, o + 2)]
        ELSE [s EXCEPT !.offset = o + m.value, !.maxRead = Max(@, o - 1)]

\* lines 459-463
SysExBranch(b, s, h) ==
    LET x == readVariableLength(b, h.offset)
    IN  IF ~x.ok THEN Throw(s, Len(b))
        ELSE [s EXCEPT !.offset = h.offset + x.bytesRead + x.value,
                       !.maxRead = Max(@, h.offset + x.bytesRead - 1)]

\* the branch of the if/else-if chain of lines 378-463 that an event takes
Branch(h) ==
    IF h.command = 144 THEN "noteOn"
    ELSE IF h.command = 128 THEN "noteOff"
    ELSE IF h.command \in {176, 192, 224, 160, 208} THEN "skip"
    ELSE IF h.eventType = 255 THEN "meta"
    ELSE IF h.eventType \in {240, 247} THEN "sysex"
    ELSE "none"

\* the chain with a final else that throws on an unmatched status byte
DispatchStrict(b, s1, h) ==
    CASE Branch(h) = "noteOn"  -> NoteOnBranch(b, s1, h)
      [] Branch(h) = "noteOff" -> NoteOffBranch(b, s1, h)
      [] Branch(h) = "skip"    -> SkipBranch(s1, h)
      [] Branch(h) = "meta"    -> MetaBranch(b, s1, h)
      [] Branch(h) = "sysex"   -> SysExBranch(b, s1, h)
      [] OTHER                 -> Throw(s1, h.hi)

\* lines 378-463: the if/else-if chain
Dispatch(b, s1, h) ==
    CASE Branch(h) = "noteOn"  -> NoteOnBranch(b, s1, h)
      [] Branch(h) = "noteOff" -> NoteOffBranch(b, s1, h)
      [] Branch(h) = "skip"    -> SkipBranch(s1, h)
      [] Branch(h) = "meta"    -> MetaBranch(b, s1, h)
      [] Branch(h) = "sysex"   -> SysExBranch(b, s1, h)
      [] OTHER                 -> s1

\* lines 362-376 applied to the frame: time, cursor and eventType
EventFrom(b, s, h) ==
    IF ~h.ok THEN Throw(s, Max(h.hi, Len(b)))
    ELSE Dispatch(b, [s EXCEPT !.time = s.time + h.deltaTime,
                               !.elapsed = s.elapsed + h.deltaTime * s.currentTempo,
                               !.eventType = h.eventType,
                               !.offset = h.offset,
                               !.maxRead = Max(@, h.hi)], h)

\* lines 361-464: one iteration of the while loop
Event(b, s) == EventFrom(b, s, EventHead(b, s))

\* notes.sort((a, b) => a.startTime - b.startTime) with every element kept where it is
SortKeepOrder(ns) == ns

\* insert n behind every element whose startTime is not greater (stable)
RECURSIVE Insert(_, _)
Insert(sorted, n) ==
    IF sorted = <<>> THEN <<n>>
    ELSE IF n.startTime < Head(sorted).startTime THEN <<n>> \o sorted
    ELSE <<Head(sorted)>> \o Insert(Tail(sorted), n)

RECURSIVE SortAcc(_, _)
SortAcc(acc, rest) ==
    IF rest = <<>> THEN acc ELSE SortAcc(Insert(acc, Head(rest)), Tail(rest))

\* line 468: Array.prototype.sort is stable; the comparator orders by startTime
SortByStartTime(ns) == SortAcc(<<>>, ns)

\* lines 467-471
Return(s) ==
    [s EXCEPT !.pc = "done",
              !.result = [notes |-> SortByStartTime(s.notes),
                          duration |-> s.maxTime,
                          tempoChanges |-> s.tempoChanges]]

\* one step of parseMidiFile from position s.pc
Step(b, s) ==
    CASE s.pc = "header" -> ReadHeader(b, s)
      [] s.pc = "track"  -> IF s.track < s.trackCount THEN ReadTrackChunk(b, s)
                            ELSE Return(s)
      [] s.pc = "event"  -> IF s.offset < s.trackEnd THEN Event(b, s)
                            ELSE EndTrack(s)
      [] OTHER           -> s

\* a bound on the steps of one decode of a buffer b: every event-loop
\* iteration of the inputs below moves the cursor forward
Fuel(b) == 2 * Len(b) + 4

RECURSIVE Run(_, _, _)
Run(b, s, fuel) ==
    IF s.pc \in {"done", "failed"} \/ fuel = 0 THEN s
    ELSE Run(b, Step(b, s), fuel - 1)

\* the whole call: the final frame of parseMidiFile on buffer b
parseMidiFile(b) == Run(b, DecStart, Fuel(b))

----------------------------------------------------------------------------
(* The input files.  An event is written as its delta-time bytes, a status  *)
(* byte (Running when the writer leaves it out) and its data bytes.         *)

Running == -1

Ev(d, st, data) == [d |-> d, st |-> st, data |-> data]

On60 == Ev(<<1>>, 144, <<60, 64>>)

On62 == Ev(<<1>>, 144, <<62, 64>>)

On62Now == Ev(<<0>>, 144, <<62, 64>>)

Off60 == Ev(<<1>>, 128, <<60, 0>>)

Off62 == Ev(<<1>>, 128, <<62, 0>>)

\* Note-On with velocity 0, at the tick of the previous event
On60Vel0 == Ev(<<0>>, 144, <<60, 0>>)

\* Set Tempo to 100000 microseconds per quarter note (0x0186A0)
SetTempo == Ev(<<0>>, 255, <<81, 3, 1, 134, 160>>)

\* pitch 60, velocity 0 under running status
RunningOff60 == Ev(<<1>>, Running, <<60, 0>>)

\* a status byte outside the MIDI file command set
Undefined == Ev(<<0>>, 241, <<>>)

ControlChange == Ev(<<1>>, 176, <<7, 100>>)

SysEx == Ev(<<0>>, 240, <<1, 0>>)

EndOfTrack == Ev(<<0>>, 255, <<47, 0>>)

\* Note-On behind a delta-time written in five bytes
On60FiveByteDelta == Ev(<<255, 255, 255, 255, 126>>, 144, <<60, 64>>)

\* a text meta-event whose length is written in five bytes, FF FF FF FF 78:
\* readVariableLength yields -8 for it, the size of the event up to its data
TextOfLengthMinus8 == Ev(<<0>>, 255, <<1, 255, 255, 255, 255, 120>>)

EventPool ==
    {On60, On62, Off60, On60Vel0, SetTempo, RunningOff60, Undefined, ControlChange,
     SysEx, EndOfTrack, On60FiveByteDelta, TextOfLengthMinus8}

\* what may follow the first track: nothing, or one more track
LaterTracks ==
    {<<>>, << <<Off60>> >>, << <<On62Now, Off62>> >>, << <<On62, Off62>> >>}

WellFramed ==
    [hdrTagOk |-> TRUE, extra |-> 0, badTrack |-> 0, countDelta |-> 0,
     lenDelta |-> 0, cut |-> 0]

\* framings with one defect
Defects ==
    {[WellFramed EXCEPT !.hdrTagOk = FALSE],
     [WellFramed EXCEPT !.extra = 2],
     [WellFramed EXCEPT !.badTrack = 1],
     [WellFramed EXCEPT !.badTrack = 2],
     [WellFramed EXCEPT !.countDelta = 1],
     [WellFramed EXCEPT !.countDelta = -1],
     [WellFramed EXCEPT !.lenDelta = 1],
     [WellFramed EXCEPT !.lenDelta = -1]}
    \cup {[WellFramed EXCEPT !.cut = k] : k \in 1..MaxCut}

Files ==
    {[tracks |-> <<t>> \o l, frame |-> WellFramed] :
        t \in SeqsUpTo(EventPool, MaxEvents), l \in LaterTracks}
    \cup
    {[tracks |-> <<t>> \o l, frame |-> f] :
        t \in SeqsUpTo(EventPool, MaxFramedEvents), l \in LaterTracks, f \in Defects}

EventBytes(e) == e.d \o (IF e.st = Running THEN <<>> ELSE <<e.st>>) \o e.data

TrackBody(t) == Flatten([i \in 1..Len(t) |-> EventBytes(t[i])])

U16Bytes(n) == <<(n \div 256) % 256, n % 256>>

U32Bytes(n) == U16Bytes(n \div 65536) \o U16Bytes(n % 65536)

TrackChunkBytes(f, k, t) ==
    (IF f.badTrack = k THEN <<88, 88, 88, 88>> ELSE MTrk)
    \o U32Bytes(Max(0, Len(TrackBody(t)) + f.lenDelta))
    \o TrackBody(t)

\* format 1, division 480 ticks per quarter note
HeaderBytes(f, n) ==
    (IF f.hdrTagOk THEN MThd ELSE <<88, 88, 88, 88>>)
    \o U32Bytes(6 + f.extra)
    \o U16Bytes(1) \o U16Bytes(Max(0, n + f.countDelta)) \o U16Bytes(480)
    \o [i \in 1..f.extra |-> 0]

Bytes(file) ==
    LET all == HeaderBytes(file.frame, Len(file.tracks))
               \o Flatten([k \in 1..Len(file.tracks) |->
                              TrackChunkBytes(file.frame, k, file.tracks[k])])
    IN  SubSeq(all, 1, Len(all) - file.frame.cut)

----------------------------------------------------------------------------
(* AudioEngine (audio-engine.ts lines 3-298).  A voice is the group of      *)
(* oscillators one noteOn or playNote call starts; it is in the audio       *)
(* graph from osc.start until its oscillators stop.  The engine state e     *)
(* holds activeOscillators (pitch -> voice, 0 for no entry), the voices     *)
(* still sounding, and per pitch the clean-up timers noteOff has set.       *)

Pitch == {60, 62}

NoVoice == 0

EngineInit ==
    [activeOscillators |-> [p \in Pitch |-> NoVoice],
     voices |-> {},
     timers |-> [p \in Pitch |-> 0]]

VoiceIds(e) == {v.id : v \in e.voices}

Registered(e) == {e.activeOscillators[p] : p \in Pitch} \ {NoVoice}

FreeIds(e) == (1..MaxVoices) \ (VoiceIds(e) \cup Registered(e))

\* the oscillators created by lines 52-83 / 157-177
NewVoice(e, pitch, timed) ==
    [id |-> MinOf(FreeIds(e)), pitch |-> pitch, timed |-> timed, released |-> FALSE]

\* lines 109-122: the release ramp and osc.stop(now + releaseTime)
Release(voices, id) ==
    {IF v.id = id THEN [v EXCEPT !.released = TRUE] ELSE v : v \in voices}

\* lines 103-141; the timer of lines 124-139 is left pending
noteOff(e, pitch) ==
    IF e.activeOscillators[pitch] # NoVoice
    THEN [e EXCEPT !.voices = Release(@, e.activeOscillators[pitch]),
                   !.timers[pitch] = @ + 1]
    ELSE e

\* lines 98-100 of noteOn, after its noteOff call
StartRegistered(e, pitch) ==
    [e EXCEPT !.voices = @ \cup {NewVoice(e, pitch, FALSE)},
              !.activeOscillators[pitch] = NewVoice(e, pitch, FALSE).id]

\* lines 37-101
noteOn(e, pitch) ==
    IF ~audioReady THEN e ELSE StartRegistered(noteOff(e, pitch), pitch)

\* lines 143-214: with a duration the voice is started and left to end by
\* itself, and activeOscillators is not touched
playNote(e, pitch, duration) ==
    IF ~audioReady THEN e
    ELSE IF duration # 0
         THEN [e EXCEPT !.voices = @ \cup {NewVoice(e, pitch, TRUE)}]
         ELSE noteOn(e, pitch)

\* lines 220-235
stopAllNotes(e) ==
    [e EXCEPT !.voices = {v \in @ : v.id \notin Registered(e)},
              !.activeOscillators = [p \in Pitch |-> NoVoice]]

\* the voices a caller can still hear as held: started and not yet released
Held(e) == {v \in e.voices : ~v.released}

----------------------------------------------------------------------------
(* JavaScript numbers in calculateNoteScore (midi-utils.ts lines 108-112).   *)
(* 1 + Math.floor(combo / 10) * 0.1 and its product with baseScore are IEEE  *)
(* 754 binary64 operations: each result is the exact value rounded to 53     *)
(* significant binary digits, to nearest, ties to even.  A double is kept    *)
(* as the natural number value * 2^56, written in binary digits, lowest      *)
(* first.                                                                    *)

ToBits(n) == [i \in 1..72 |-> IF i <= 30 THEN (n \div 2^(i - 1)) % 2 ELSE 0]

RECURSIVE AddFrom(_, _, _, _)
AddFrom(a, b, i, carry) ==
    IF i > Len(a) THEN <<>>
    ELSE <<(a[i] + b[i] + carry) % 2>>
             \o AddFrom(a, b, i + 1, (a[i] + b[i] + carry) \div 2)

AddBits(a, b) == AddFrom(a, b, 1, 0)

\* a * 2^n
ShiftLeft(a, n) == [i \in 1..Len(a) |-> IF i > n THEN a[i - n] ELSE 0]

\* a div 2^n
ShiftRight(a, n) == [i \in 1..Len(a) |-> IF i + n <= Len(a) THEN a[i + n] ELSE 0]

RECURSIVE MulFrom(_, _, _)
\* a * n * 2^shift for a natural number n, by shift and add
MulFrom(a, n, shift) ==
    IF n = 0 THEN ToBits(0)
    ELSE IF n % 2 = 1
         THEN AddBits(ShiftLeft(a, shift), MulFrom(a, n \div 2, shift + 1))
         ELSE MulFrom(a, n \div 2, shift + 1)

BitLength(a) ==
    IF \A i \in 1..Len(a) : a[i] = 0 THEN 0
    ELSE CHOOSE i \in 1..Len(a) : a[i] = 1 /\ \A j \in (i + 1)..Len(a) : a[j] = 0

\* the n lowest digits of a are worth more than half of 2^n
AboveHalf(a, n) == a[n] = 1 /\ \E i \in 1..(n - 1) : a[i] = 1

\* the n lowest digits of a are worth exactly half of 2^n
IsHalf(a, n) == a[n] = 1 /\ \A i \in 1..(n - 1) : a[i] = 0

\* rounding of an exact result to binary64
RoundDouble(a) ==
    LET drop == BitLength(a) - 53
    IN  IF drop <= 0 THEN a
        ELSE LET kept == ShiftRight(a, drop)
                 up == AboveHalf(a, drop) \/ (IsHalf(a, drop) /\ kept[1] = 1)
             IN  ShiftLeft(IF up THEN AddBits(kept, ToBits(1)) ELSE kept, drop)

\* the literal 0.1 is the double 0x1999999999999A * 2^-56
OneTenth ==
    LET hex == <<10, 9, 9, 9, 9, 9, 9, 9, 9, 9, 9, 9, 9, 1>>
    IN  [i \in 1..72 |->
            IF i <= 56 THEN (hex[(i - 1) \div 4 + 1] \div 2^((i - 1) % 4)) % 2 ELSE 0]

\* the literal 1
One == ShiftLeft(ToBits(1), 56)

RECURSIVE ValueFrom(_, _)
ValueFrom(a, i) == IF i > 30 THEN 0 ELSE a[i] + 2 * ValueFrom(a, i + 1)

\* Math.floor of a double in [0, 2^30)
Floor(a) == ValueFrom(ShiftRight(a, 56), 1)

\* the product a * b of two doubles, b a natural number
Times(a, b) == RoundDouble(MulFrom(a, b, 0))

\* the sum a + b of two doubles
Plus(a, b) == RoundDouble(AddBits(a, b))

----------------------------------------------------------------------------
(* Scoring (midi-utils.ts lines 94-112).  Times of the rhythm game are in   *)
(* units of 0.05 s.                                                          *)

TIMING_WINDOWS == [perfect |-> 1, good |-> 3, miss |-> 6]

Abs(x) == IF x < 0 THEN -x ELSE x

\* lines 101-106
calculateHitRating(timeDiff) ==
    IF Abs(timeDiff) <= TIMING_WINDOWS.perfect THEN "perfect"
    ELSE IF Abs(timeDiff) <= TIMING_WINDOWS.good THEN "good"
    ELSE "miss"

\* line 109
baseScore(rating) ==
    IF rating = "perfect" THEN 100 ELSE IF rating = "good" THEN 50 ELSE 0

\* lines 108-112
calculateNoteScore(rating, combo) ==
    Floor(Times(Plus(One, Times(OneTenth, combo \div 10)), baseScore(rating)))

----------------------------------------------------------------------------
(* MidiPlayer, the rhythm-game component (src/unnamed/part_001 lines 30-420) *)

\* lines 41-48
NoScore == [perfect |-> 0, good |-> 0, miss |-> 0, combo |-> 0, maxCombo |-> 0, score |-> 0]

\* recentHits before any hit; of recentHits the model keeps the latest entry
NoHit == [noteId |-> 0, rating |-> "none"]

\* lines 31-58.  rendered holds the hitNotes and missedNotes of the latest
\* render, the values handleNoteHit (line 119) and the tick effect (line 342)
\* have captured; unrendered counts the MIDI messages handled since then
PlayerInit ==
    [midiData |-> Null,
     isPlaying |-> FALSE,
     currentTime |-> 0,
     mode |-> "preview",
     userPressedKeys |-> {},
     gameScore |-> NoScore,
     hitNotes |-> {},
     missedNotes |-> {},
     recentHits |-> NoHit,
     rendered |-> [hitNotes |-> {}, missedNotes |-> {}],
     unrendered |-> 0]

----------------------------------------------------------------------------
(* Home: initial state of the component (lines 14-27) *)

\* handleSeek has not run since the latest tick
NoSeek == [pending |-> FALSE, time |-> 0]

\* no setCurrentTime updater is waiting for a render
NoUpdate == [pending |-> FALSE, newTime |-> 0, superseded |-> FALSE]

\* Home before any file is chosen
HomeIdle ==
    /\ midiData = Null
    /\ isPlaying = FALSE
    /\ currentTime = 0
    /\ speed = 4
    /\ activeNotes = {}
    /\ audioReady = FALSE
    /\ scheduledNotes = {}
    /\ currentlyPlayingNotes = {}
    /\ newTime = 0
    /\ played = {}
    /\ dispatchCount = <<>>
    /\ afterSeek = NoSeek
    /\ queued = NoUpdate
    /\ audioEngine = EngineInit

HomeInit == HomeIdle /\ player = PlayerInit

----------------------------------------------------------------------------
(* Decoding a selected file: handleFileSelect calls parseMidiFile *)

InitParse ==
    /\ src \in Files
    /\ buf = Bytes(src)
    /\ dec = DecStart
    /\ HomeInit

Decoding == dec.pc \in {"header", "track", "event"}

InLoop == dec.pc = "event" /\ dec.offset < dec.trackEnd

HeadTakes(h, branch) == h.ok /\ Branch(h) = branch

Takes(branch) == InLoop /\ HeadTakes(EventHead(buf, dec), branch)

Advance ==
    /\ dec' = Step(buf, dec)
    /\ dec'.pc # "failed"
    /\ UNCHANGED <<src, buf>>
    /\ UNCHANGED homeVars
    /\ UNCHANGED loopVars
    /\ UNCHANGED sinkVars
    /\ UNCHANGED gameVars

ParseHeader == dec.pc = "header" /\ Advance

TrackChunk == dec.pc = "track" /\ dec.track < dec.trackCount /\ Advance

TrackEnd == dec.pc = "event" /\ dec.offset >= dec.trackEnd /\ Advance

NoteOnEvent == Takes("noteOn") /\ Advance

NoteOffEvent == Takes("noteOff") /\ Advance

SkippedEvent == Takes("skip") /\ Advance

MetaEvent == Takes("meta") /\ Advance

SysExEvent == Takes("sysex") /\ Advance

\* no branch of the chain matches: the iteration ends with nothing consumed
\* beyond the delta-time and the status byte
UnmatchedEvent == Takes("none") /\ Advance

ReturnData == dec.pc = "track" /\ dec.track >= dec.trackCount /\ Advance

\* an Error (bad chunk tag) or a RangeError (read outside the buffer) is thrown
ThrowError ==
    /\ Decoding
    /\ dec' = Step(buf, dec)
    /\ dec'.pc = "failed"
    /\ UNCHANGED <<src, buf>>
    /\ UNCHANGED homeVars
    /\ UNCHANGED loopVars
    /\ UNCHANGED sinkVars
    /\ UNCHANGED gameVars

\* page.tsx lines 58-62: the await returns
FileLoaded ==
    /\ dec.pc = "done"
    /\ midiData' = dec.result
    /\ currentTime' = 0
    /\ isPlaying' = FALSE
    /\ dec' = [dec EXCEPT !.pc = "loaded"]
    /\ UNCHANGED <<src, buf, speed, activeNotes, audioReady>>
    /\ UNCHANGED loopVars
    /\ UNCHANGED sinkVars
    /\ UNCHANGED gameVars

\* page.tsx lines 63-65: the catch clause
FileRejected ==
    /\ dec.pc = "failed"
    /\ dec' = [dec EXCEPT !.pc = "alerted"]
    /\ UNCHANGED <<src, buf>>
    /\ UNCHANGED homeVars
    /\ UNCHANGED loopVars
    /\ UNCHANGED sinkVars
    /\ UNCHANGED gameVars

NextParse ==
    \/ ParseHeader
    \/ TrackChunk
    \/ TrackEnd
    \/ NoteOnEvent
    \/ NoteOffEvent
    \/ SkippedEvent
    \/ MetaEvent
    \/ SysExEvent
    \/ UnmatchedEvent
    \/ ReturnData
    \/ ThrowError
    \/ FileLoaded
    \/ FileRejected

SpecParse == InitParse /\ [][NextParse]_vars

\* the files whose first track holds at most one event
ShortFiles == {file \in Files : Len(file.tracks[1]) <= 1}

InitShort ==
    /\ src \in ShortFiles
    /\ buf = Bytes(src)
    /\ dec = DecStart
    /\ HomeInit

\* the decode is one uninterrupted call: it goes on as long as it has a step
SpecParseFair == InitShort /\ [][NextParse]_vars /\ WF_vars(NextParse)

----------------------------------------------------------------------------
(* Playback (page.tsx).  The play-head and the note times are integers of   *)
(* one time unit; speed is counted in slider steps of 0.25, so a frame of   *)
(* dt wall-clock units moves the play-head by dt * speed / 4.               *)

Speeds == {4, 8}

NotePool ==
    {[pitch |-> p, startTime |-> st, duration |-> d, velocity |-> 64, channel |-> 0] :
        p \in {60, 62}, st \in {0, 2}, d \in {2, 3}}

Ascending(ns) == \A i \in 1..(Len(ns) - 1) : ns[i].startTime <= ns[i + 1].startTime

\* the MidiData that parseMidiFile returns for a list of notes (lines 467-471)
Song(ns) ==
    [notes |-> ns,
     duration |-> MaxOf({0} \cup {ns[i].startTime + ns[i].duration : i \in 1..Len(ns)}),
     tempoChanges |-> <<>>]

Songs == {Song(ns) : ns \in {x \in SeqsUpTo(NotePool, MaxNotes) : Ascending(x)}}

InitPlay ==
    /\ src = [tracks |-> <<>>, frame |-> WellFramed]
    /\ buf = <<>>
    /\ dec = [DecStart EXCEPT !.pc = "loaded"]
    /\ midiData \in Songs \cup {Null}
    /\ isPlaying = FALSE
    /\ currentTime = 0
    /\ speed = 4
    /\ activeNotes = {}
    /\ audioReady = FALSE
    /\ scheduledNotes = {}
    /\ currentlyPlayingNotes = {}
    /\ newTime = 0
    /\ played = {}
    /\ dispatchCount = IF midiData = Null THEN <<>>
                       ELSE [i \in 1..Len(midiData.notes) |-> 0]
    /\ afterSeek = NoSeek
    /\ queued = NoUpdate
    /\ audioEngine = EngineInit
    /\ player = PlayerInit

Loaded == midiData # Null

NoteIds == 1..Len(midiData.notes)

NoDispatch == [i \in NoteIds |-> 0]

\* line 164: the note sounds at time t
IsActive(note, t) == t >= note.startTime /\ t < note.startTime + note.duration

\* the test of line 185 with the duration left out
HasStarted(note, t) == t > note.startTime

\* line 185: the note has fully elapsed at time t
HasElapsed(note, t) == t > note.startTime + note.duration

\* React runs an event handler after the renders it has already scheduled;
\* the one interleaving kept apart is handleStop arriving between a tick and
\* the render that runs the tick's updater (tickQueued, render)
Rendered == ~queued.pending

\* lines 29-37: the first click or key press
initAudio ==
    /\ ~audioReady
    /\ audioReady' = TRUE
    /\ played' = {}
    /\ UNCHANGED parseVars
    /\ UNCHANGED gameVars
    /\ UNCHANGED <<midiData, isPlaying, currentTime, speed, activeNotes>>
    /\ UNCHANGED <<scheduledNotes, currentlyPlayingNotes, newTime, dispatchCount>>
    /\ UNCHANGED <<afterSeek, queued>>
    /\ UNCHANGED sinkVars

\* lines 79-92; the playback effect is torn down or set up again, with a
\* fresh currentlyPlayingNotes (lines 141-150)
handlePlayPause ==
    /\ Loaded
    /\ Rendered
    /\ IF isPlaying
       THEN /\ isPlaying' = FALSE
            /\ audioEngine' = stopAllNotes(audioEngine)
            /\ UNCHANGED <<currentTime, scheduledNotes, dispatchCount>>
       ELSE /\ isPlaying' = TRUE
            /\ IF currentTime >= midiData.duration
               THEN /\ currentTime' = 0
                    /\ scheduledNotes' = {}
                    /\ dispatchCount' = NoDispatch
               ELSE UNCHANGED <<currentTime, scheduledNotes, dispatchCount>>
            /\ UNCHANGED audioEngine
    /\ currentlyPlayingNotes' = {}
    /\ played' = {}
    /\ UNCHANGED parseVars
    /\ UNCHANGED gameVars
    /\ UNCHANGED <<midiData, speed, activeNotes, audioReady, newTime>>
    /\ UNCHANGED <<afterSeek, queued>>

\* lines 94-100; the effect is torn down (lines 203-207), and an updater a
\* tick has queued stays queued behind the state handleStop sets
handleStop ==
    /\ isPlaying' = FALSE
    /\ currentTime' = 0
    /\ scheduledNotes' = {}
    /\ activeNotes' = {}
    /\ currentlyPlayingNotes' = IF queued.pending THEN currentlyPlayingNotes ELSE {}
    /\ played' = {}
    /\ dispatchCount' = IF Loaded THEN NoDispatch ELSE dispatchCount
    /\ afterSeek' = NoSeek
    /\ queued' = IF queued.pending THEN [queued EXCEPT !.superseded = TRUE] ELSE queued
    /\ audioEngine' = stopAllNotes(audioEngine)
    /\ UNCHANGED parseVars
    /\ UNCHANGED gameVars
    /\ UNCHANGED <<midiData, speed, audioReady, newTime>>

\* line 103: midiData?.duration || 0
DurationOrZero == IF Loaded THEN midiData.duration ELSE 0

\* handleSeek without the clamp of line 103
handleSeekUnclamped(time) ==
    /\ Rendered
    /\ currentTime' = time
    /\ scheduledNotes' = {}
    /\ activeNotes' = {}
    /\ played' = {}
    /\ dispatchCount' = IF Loaded THEN NoDispatch ELSE dispatchCount
    /\ afterSeek' = [pending |-> TRUE, time |-> time]
    /\ audioEngine' = stopAllNotes(audioEngine)
    /\ UNCHANGED parseVars
    /\ UNCHANGED gameVars
    /\ UNCHANGED <<midiData, isPlaying, speed, audioReady, currentlyPlayingNotes, newTime>>
    /\ UNCHANGED queued

\* lines 102-107; the dependencies of the playback effect do not change, so
\* a running effect keeps its currentlyPlayingNotes
handleSeek(time) ==
    /\ Rendered
    /\ currentTime' = Max(0, Min(time, DurationOrZero))
    /\ scheduledNotes' = {}
    /\ activeNotes' = {}
    /\ played' = {}
    /\ dispatchCount' = IF Loaded THEN NoDispatch ELSE dispatchCount
    /\ afterSeek' = [pending |-> TRUE, time |-> time]
    /\ audioEngine' = stopAllNotes(audioEngine)
    /\ UNCHANGED parseVars
    /\ UNCHANGED gameVars
    /\ UNCHANGED <<midiData, isPlaying, speed, audioReady, currentlyPlayingNotes, newTime>>
    /\ UNCHANGED queued

\* lines 113-115; a new speed re-runs the playback effect
handleSpeedChange(newSpeed) ==
    /\ Rendered
    /\ newSpeed # speed
    /\ speed' = newSpeed
    /\ currentlyPlayingNotes' = {}
    /\ played' = {}
    /\ UNCHANGED parseVars
    /\ UNCHANGED gameVars
    /\ UNCHANGED <<midiData, isPlaying, currentTime, activeNotes, audioReady>>
    /\ UNCHANGED <<scheduledNotes, newTime, dispatchCount>>
    /\ UNCHANGED <<afterSeek, queued>>
    /\ UNCHANGED sinkVars

\* room in the bounded audio graph for n more voices
HasRoom(e, n) == Cardinality(FreeIds(e)) >= n

\* noteOff(e, pitch) sets one more clean-up timer
SetsTimer(e, pitch) == e.activeOscillators[pitch] # NoVoice

\* lines 117-121
handleKeyPress(pitch) ==
    /\ Rendered
    /\ audioReady => HasRoom(audioEngine, 1)
    /\ (audioReady /\ SetsTimer(audioEngine, pitch)) => audioEngine.timers[pitch] < MaxTimers
    /\ audioEngine' = noteOn(audioEngine, pitch)
    /\ activeNotes' = activeNotes \cup {pitch}
    /\ played' = {}
    /\ UNCHANGED parseVars
    /\ UNCHANGED gameVars
    /\ UNCHANGED <<midiData, isPlaying, currentTime, speed, audioReady>>
    /\ UNCHANGED <<scheduledNotes, currentlyPlayingNotes, newTime, dispatchCount>>
    /\ UNCHANGED <<afterSeek, queued>>

\* lines 123-131
handleKeyRelease(pitch) ==
    /\ Rendered
    /\ SetsTimer(audioEngine, pitch) => audioEngine.timers[pitch] < MaxTimers
    /\ audioEngine' = noteOff(audioEngine, pitch)
    /\ activeNotes' = activeNotes \ {pitch}
    /\ played' = {}
    /\ UNCHANGED parseVars
    /\ UNCHANGED gameVars
    /\ UNCHANGED <<midiData, isPlaying, currentTime, speed, audioReady>>
    /\ UNCHANGED <<scheduledNotes, currentlyPlayingNotes, newTime, dispatchCount>>
    /\ UNCHANGED <<afterSeek, queued>>

\* audio-engine.ts lines 118 and 193: the stop time set for the oscillators
\* of a released or timed voice arrives
OscillatorEnded(v) ==
    /\ v \in audioEngine.voices
    /\ v.timed \/ v.released
    /\ audioEngine' = [audioEngine EXCEPT !.voices = @ \ {v}]
    /\ played' = {}
    /\ UNCHANGED parseVars
    /\ UNCHANGED gameVars
    /\ UNCHANGED homeVars
    /\ UNCHANGED <<scheduledNotes, currentlyPlayingNotes, newTime, dispatchCount>>
    /\ UNCHANGED <<afterSeek, queued>>

\* audio-engine.ts lines 124-139: the callback of a timer set by noteOff
CleanUpTimer(pitch) ==
    /\ audioEngine.timers[pitch] > 0
    /\ audioEngine' = [audioEngine EXCEPT !.timers[pitch] = @ - 1,
                                          !.activeOscillators[pitch] = NoVoice]
    /\ played' = {}
    /\ UNCHANGED parseVars
    /\ UNCHANGED gameVars
    /\ UNCHANGED homeVars
    /\ UNCHANGED <<scheduledNotes, currentlyPlayingNotes, newTime, dispatchCount>>
    /\ UNCHANGED <<afterSeek, queued>>

\* lines 163-173: the notes handed to playNote by a tick at time t
Triggered(t) ==
    {i \in NoteIds :
        /\ IsActive(midiData.notes[i], t)
        /\ midiData.notes[i].pitch \notin currentlyPlayingNotes
        /\ i \notin scheduledNotes}

Pitches(ids) == {midiData.notes[i].pitch : i \in ids}

\* lines 163-166: newActiveNotes
ActivePitches(t) == Pitches({i \in NoteIds : IsActive(midiData.notes[i], t)})

\* lines 184-188: the dispatched set after its clean-up
Cleaned(set, t) == {i \in set : ~HasElapsed(midiData.notes[i], t)}

RECURSIVE playAll(_, _)
\* line 170, once for each note of ids in the order of midiData.notes
playAll(e, ids) ==
    IF ids = {} THEN e
    ELSE LET i == MinOf(ids)
         IN  playAll(playNote(e, midiData.notes[i].pitch, midiData.notes[i].duration),
                     ids \ {i})

\* lines 159-188: what the updater does for the play-head value t, apart
\* from the value it returns
updaterEffects(t) ==
    /\ newTime' = t
    /\ played' = Triggered(t)
    /\ dispatchCount' =
           [i \in NoteIds |-> IF i \in Triggered(t) THEN Min(2, dispatchCount[i] + 1)
                              ELSE dispatchCount[i]]
    /\ activeNotes' = ActivePitches(t)
    /\ scheduledNotes' = Cleaned(scheduledNotes \cup Triggered(t), t)
    /\ HasRoom(audioEngine, Cardinality(Triggered(t)))
    /\ audioEngine' = playAll(audioEngine, Triggered(t))
    /\ afterSeek' = NoSeek

\* tickAt without the end-of-song branch of lines 190-193
tickAtPastTheEnd(dt, t) ==
    /\ updaterEffects(t)
    /\ currentTime' = t
    /\ currentlyPlayingNotes' =
           (currentlyPlayingNotes \cap ActivePitches(t)) \cup Pitches(Triggered(t))
    /\ UNCHANGED isPlaying
    /\ UNCHANGED parseVars
    /\ UNCHANGED gameVars
    /\ UNCHANGED <<midiData, speed, audioReady, queued>>

\* lines 152-199: one animation frame, dt after the previous one
tickAt(dt, t) ==
    /\ updaterEffects(t)
    /\ IF t >= midiData.duration
       THEN /\ isPlaying' = FALSE
            /\ currentTime' = midiData.duration
            /\ currentlyPlayingNotes' = {}
       ELSE /\ currentTime' = t
            /\ currentlyPlayingNotes' =
                   (currentlyPlayingNotes \cap ActivePitches(t)) \cup Pitches(Triggered(t))
            /\ UNCHANGED isPlaying
    /\ UNCHANGED parseVars
    /\ UNCHANGED gameVars
    /\ UNCHANGED <<midiData, speed, audioReady, queued>>

\* lines 142, 153-158: the effect runs only while playing with a file and
\* audio; React renders, and so runs the updater, before anything else happens
tick(dt) ==
    /\ isPlaying /\ Loaded /\ audioReady
    /\ Rendered
    /\ tickAt(dt, currentTime + (dt * speed) \div 4)

\* lines 152-158, 198: the frame callback hands the updater to React, which
\* has not rendered yet
tickQueued(dt) ==
    /\ isPlaying /\ Loaded /\ audioReady
    /\ Rendered
    /\ queued' = [pending |-> TRUE,
                  newTime |-> currentTime + (dt * speed) \div 4,
                  superseded |-> FALSE]
    /\ played' = {}
    /\ UNCHANGED parseVars
    /\ UNCHANGED gameVars
    /\ UNCHANGED homeVars
    /\ UNCHANGED <<scheduledNotes, currentlyPlayingNotes, newTime, dispatchCount, afterSeek>>
    /\ UNCHANGED sinkVars

\* lines 157-196: React renders and runs the queued updater.  After a
\* handleStop the value it returns is replaced by the 0 queued behind it,
\* and the effect it belonged to is gone
render ==
    /\ queued.pending
    /\ updaterEffects(queued.newTime)
    /\ queued' = NoUpdate
    /\ IF queued.superseded
       THEN /\ currentlyPlayingNotes' = {}
            /\ UNCHANGED <<currentTime, isPlaying>>
       ELSE IF queued.newTime >= midiData.duration
            THEN /\ isPlaying' = FALSE
                 /\ currentTime' = midiData.duration
                 /\ currentlyPlayingNotes' = {}
            ELSE /\ currentTime' = queued.newTime
                 /\ currentlyPlayingNotes' =
                        (currentlyPlayingNotes \cap ActivePitches(queued.newTime))
                            \cup Pitches(Triggered(queued.newTime))
                 /\ UNCHANGED isPlaying
    /\ UNCHANGED parseVars
    /\ UNCHANGED gameVars
    /\ UNCHANGED <<midiData, speed, audioReady>>

Frame == \E dt \in 0..MaxDt : tick(dt)

FrameQueued == \E dt \in 0..MaxDt : tickQueued(dt)

Seek == \E time \in (-1)..(DurationOrZero + 1) : handleSeek(time)

SpeedChange == \E newSpeed \in Speeds : handleSpeedChange(newSpeed)

KeyPitches == {60}

KeyPress == \E pitch \in KeyPitches : handleKeyPress(pitch)

KeyRelease == \E pitch \in KeyPitches : handleKeyRelease(pitch)

VoiceEnds == \E v \in audioEngine.voices : OscillatorEnded(v)

TimerFires == \E pitch \in Pitch : CleanUpTimer(pitch)

\* file playback alone: nobody touches the piano keys
NextPlay ==
    \/ initAudio
    \/ handlePlayPause
    \/ handleStop
    \/ Seek
    \/ SpeedChange
    \/ Frame
    \/ FrameQueued
    \/ render
    \/ VoiceEnds

SpecPlay == InitPlay /\ [][NextPlay]_vars

\* file playback of one short song together with the piano keys
SinkSongs ==
    {Song(<<[pitch |-> 60, startTime |-> 0, duration |-> 3, velocity |-> 64, channel |-> 0]>>)}

InitSink ==
    /\ src = [tracks |-> <<>>, frame |-> WellFramed]
    /\ buf = <<>>
    /\ dec = [DecStart EXCEPT !.pc = "loaded"]
    /\ midiData \in SinkSongs \cup {Null}
    /\ isPlaying = FALSE
    /\ currentTime = 0
    /\ speed = 4
    /\ activeNotes = {}
    /\ audioReady = FALSE
    /\ scheduledNotes = {}
    /\ currentlyPlayingNotes = {}
    /\ newTime = 0
    /\ played = {}
    /\ afterSeek = NoSeek
    /\ queued = NoUpdate
    /\ audioEngine = EngineInit
    /\ player = PlayerInit
    /\ dispatchCount = IF midiData = Null THEN <<>>
                       ELSE [i \in 1..Len(midiData.notes) |-> 0]

NextSink ==
    \/ initAudio
    \/ handlePlayPause
    \/ handleStop
    \/ Seek
    \/ SpeedChange
    \/ Frame
    \/ FrameQueued
    \/ render
    \/ VoiceEnds
    \/ KeyPress
    \/ KeyRelease
    \/ TimerFires

SpecSink == InitSink /\ [][NextSink]_vars

----------------------------------------------------------------------------
(* MidiPlayer in play mode: key events and the drive loop *)

GameNotePool ==
    {[pitch |-> 60, startTime |-> 4, duration |-> 2, velocity |-> 64, track |-> 0],
     [pitch |-> 60, startTime |-> 9, duration |-> 2, velocity |-> 64, track |-> 0],
     [pitch |-> 62, startTime |-> 4, duration |-> 2, velocity |-> 64, track |-> 0]}

\* lines 231-248: allNotes sorted by startTime; duration is that of the file,
\* here the end of its last note
GameSongs ==
    {[notes |-> ns,
      duration |-> MaxOf({0} \cup {ns[i].startTime + ns[i].duration : i \in 1..Len(ns)})] :
        ns \in {x \in SeqsUpTo(GameNotePool, MaxGameNotes) : Len(x) > 0 /\ Ascending(x)}}

\* a file is loaded and play mode is chosen (lines 250-254, 434-439)
InitGame ==
    /\ src = [tracks |-> <<>>, frame |-> WellFramed]
    /\ buf = <<>>
    /\ dec = [DecStart EXCEPT !.pc = "loaded"]
    /\ HomeIdle
    /\ \E song \in GameSongs :
           player = [PlayerInit EXCEPT !.midiData = song, !.mode = "play"]

GameNoteIds == 1..Len(player.midiData.notes)

GameNote(i) == player.midiData.notes[i]

\* lines 76-86: the notes handleNoteHit may match for a key of this pitch
Candidates(pitch, time, hit, missed) ==
    {i \in GameNoteIds :
        /\ GameNote(i).pitch = pitch
        /\ i \notin hit /\ i \notin missed
        /\ Abs(GameNote(i).startTime - time) <= TIMING_WINDOWS.miss}

\* lines 83-86: the first of the nearest candidates
Closest(time, cands) ==
    MinOf({i \in cands :
              \A j \in cands :
                  Abs(GameNote(i).startTime - time) <= Abs(GameNote(j).startTime - time)})

\* the updater of lines 106-116 without the reset of the combo on a miss
hitUpdaterKeepsCombo(prev, rating) ==
    [prev EXCEPT ![rating] = @ + 1,
                 !.maxCombo = Max(prev.maxCombo, prev.combo + 1),
                 !.combo = prev.combo + 1,
                 !.score = @ + calculateNoteScore(rating, prev.combo)]

\* lines 106-116: the updater handed to setGameScore
hitUpdater(prev, rating) ==
    [prev EXCEPT ![rating] = @ + 1,
                 !.maxCombo = Max(prev.maxCombo, IF rating = "miss" THEN 0 ELSE prev.combo + 1),
                 !.combo = IF rating = "miss" THEN 0 ELSE prev.combo + 1,
                 !.score = @ + calculateNoteScore(rating, prev.combo)]

\* lines 88-117: the matched note i is consumed and scored
Consume(p, i) ==
    LET rating == calculateHitRating(GameNote(i).startTime - p.currentTime)
    IN  [p EXCEPT !.hitNotes = @ \cup {i},
                  !.recentHits = [noteId |-> i, rating |-> rating],
                  !.gameScore = hitUpdater(@, rating)]

\* lines 68-120: handleNoteHit, reading the sets of the latest render
handleNoteHit(p, pitch) ==
    IF p.mode # "play" \/ p.midiData = Null \/ ~p.isPlaying
    THEN p
    ELSE LET cands == Candidates(pitch, p.currentTime,
                                 p.rendered.hitNotes, p.rendered.missedNotes)
         IN  IF cands = {} THEN p ELSE Consume(p, Closest(p.currentTime, cands))

\* React renders: handlers and effects capture the current sets
Render(p) ==
    [p EXCEPT !.rendered = [hitNotes |-> p.hitNotes, missedNotes |-> p.missedNotes],
              !.unrendered = 0]

GameFrame == UNCHANGED <<parseVars, homeVars, loopVars, sinkVars>>

\* lines 383-386
handlePlay ==
    /\ ~player.isPlaying
    /\ player' = Render([player EXCEPT !.isPlaying = TRUE])
    /\ GameFrame

\* lines 388-391
handlePause ==
    /\ player.isPlaying
    /\ player' = Render([player EXCEPT !.isPlaying = FALSE])
    /\ GameFrame

\* lines 257-270: resetGameState
resetGameState(p) ==
    [p EXCEPT !.gameScore = NoScore, !.hitNotes = {}, !.missedNotes = {},
              !.recentHits = NoHit]

\* lines 393-398
handleRestart ==
    /\ player' = Render(resetGameState([player EXCEPT !.currentTime = 0]))
    /\ GameFrame

\* lines 400-407
MidiPlayer_handleSeek(time) ==
    /\ player' = Render(IF player.mode = "play"
                        THEN resetGameState([player EXCEPT !.currentTime = time])
                        ELSE [player EXCEPT !.currentTime = time])
    /\ GameFrame

\* lines 346-357: a key of the computer keyboard goes down; React renders
\* before the next event
handleKeyDown(pitch) ==
    /\ pitch \notin player.userPressedKeys
    /\ player' = Render(handleNoteHit([player EXCEPT !.userPressedKeys = @ \cup {pitch}],
                                      pitch))
    /\ GameFrame

\* lines 409-415: a key of the piano on the screen is clicked
MidiPlayer_handleKeyPress(pitch) ==
    /\ player' = Render(handleNoteHit(player, pitch))
    /\ GameFrame

\* lines 359-372
handleKeyUp(pitch) ==
    /\ pitch \in player.userPressedKeys
    /\ player' = Render([player EXCEPT !.userPressedKeys = @ \ {pitch}])
    /\ GameFrame

\* lines 122-133: a Note On of the MIDI device; the render comes later
handleMidiNoteOn(pitch) ==
    /\ player.unrendered < MaxUnrendered
    /\ player' = [handleNoteHit([player EXCEPT !.userPressedKeys = @ \cup {pitch}], pitch)
                     EXCEPT !.unrendered = @ + 1]
    /\ GameFrame

\* lines 135-145: a Note Off of the MIDI device
handleMidiNoteOff(pitch) ==
    /\ player.unrendered < MaxUnrendered
    /\ player' = [player EXCEPT !.userPressedKeys = @ \ {pitch}, !.unrendered = @ + 1]
    /\ GameFrame

\* React renders the updates queued by MIDI messages
MidiPlayer_render ==
    /\ player.unrendered > 0
    /\ player' = Render(player)
    /\ GameFrame

\* lines 301-305: the notes the tick at newTime marks missed; hitNotes and
\* missedNotes are those the effect captured
NewlyMissed(p, t) ==
    {i \in 1..Len(p.midiData.notes) :
        /\ t > p.midiData.notes[i].startTime + TIMING_WINDOWS.miss
        /\ i \notin p.rendered.hitNotes
        /\ i \notin p.rendered.missedNotes}

\* lines 307-311: the updater handed to setGameScore for a missed note
missUpdater(prev) == [prev EXCEPT !.miss = @ + 1, !.combo = 0]

RECURSIVE MarkMissed(_, _)
\* lines 306-322, once for each note of ids in the order of midiData.notes
MarkMissed(p, ids) ==
    IF ids = {} THEN p
    ELSE LET i == MinOf(ids)
         IN  MarkMissed([p EXCEPT !.missedNotes = @ \cup {i},
                                  !.gameScore = missUpdater(@),
                                  !.recentHits = [noteId |-> i, rating |-> "miss"]],
                        ids \ {i})

\* lines 279-339: one animation frame in play mode, dt after the previous one
MidiPlayer_tick(dt) ==
    /\ player.isPlaying /\ player.midiData # Null
    /\ player.mode = "play"
    /\ LET t == player.currentTime + dt
           p == MarkMissed(player, NewlyMissed(player, t))
       IN  player' = Render(IF t >= player.midiData.duration
                            THEN [p EXCEPT !.isPlaying = FALSE,
                                           !.currentTime = player.midiData.duration]
                            ELSE [p EXCEPT !.currentTime = t])
    /\ GameFrame

GamePitches == {60}

GameKeyDown == \E pitch \in GamePitches : handleKeyDown(pitch)

GameClick == \E pitch \in GamePitches : MidiPlayer_handleKeyPress(pitch)

GameKeyUp == \E pitch \in GamePitches : handleKeyUp(pitch)

MidiNoteOn == \E pitch \in GamePitches : handleMidiNoteOn(pitch)

MidiNoteOff == \E pitch \in GamePitches : handleMidiNoteOff(pitch)

GameTick == \E dt \in 1..MaxGameDt : MidiPlayer_tick(dt)

GameSeek == \E time \in {0, player.midiData.duration} : MidiPlayer_handleSeek(time)

NextGame ==
    \/ handlePlay
    \/ handlePause
    \/ handleRestart
    \/ GameSeek
    \/ GameKeyDown
    \/ GameClick
    \/ GameKeyUp
    \/ MidiNoteOn
    \/ MidiNoteOff
    \/ MidiPlayer_render
    \/ GameTick

SpecGame == InitGame /\ [][NextGame]_vars

----------------------------------------------------------------------------
(* MidiPlayer in play mode: a long run of hits *)

\* the notes of the run are spaced so that no two of them share a miss window
NoteGap == 2 * TIMING_WINDOWS.miss + 1

\* lines 231-248: a file of MaxCombo + 1 notes of one pitch
ScoreSong ==
    [notes |-> [i \in 1..(MaxCombo + 1) |->
                   [pitch |-> 60, startTime |-> NoteGap * i, duration |-> 2,
                    velocity |-> 64, track |-> 0]],
     duration |-> NoteGap * (MaxCombo + 1) + 2]

\* the player is early or late by the same amount at every note of a run:
\* 0 is rated perfect, 2 good and 5 miss
ScoreOffsets == {0, 2, 5}

\* the file is loaded, play mode chosen and the play-head moved to the first
\* note (lines 400-407)
InitScore ==
    /\ src = [tracks |-> <<>>, frame |-> WellFramed]
    /\ buf = <<>>
    /\ dec = [DecStart EXCEPT !.pc = "loaded"]
    /\ HomeIdle
    /\ \E off \in ScoreOffsets :
           player = [PlayerInit EXCEPT !.midiData = ScoreSong, !.mode = "play",
                                       !.currentTime = NoteGap + off]

ScoreKeyDown == handleKeyDown(60)

ScoreKeyUp == handleKeyUp(60)

\* the next frame comes one note later, after the key was pressed for this one
ScoreTick ==
    /\ NewlyMissed(player, player.currentTime + NoteGap) = {}
    /\ MidiPlayer_tick(NoteGap)

NextScore ==
    \/ handlePlay
    \/ ScoreKeyDown
    \/ ScoreKeyUp
    \/ ScoreTick

SpecScore == InitScore /\ [][NextScore]_vars

----------------------------------------------------------------------------
(* Properties of the decoder *)

\* what the caller of parseMidiFile gets from a finished frame
Outcome(s) == IF s.pc = "failed" THEN Null ELSE s.result

Finished == dec.pc \in {"done", "failed"}

\* C1: every note emitted by parseMidiFile has duration >= 0, also when a
\* Set Tempo meta-event lies between its Note-On and its Note-Off.
C1_DurationNonNegative ==
    \A i \in 1..Len(dec.notes) : dec.notes[i].duration >= 0

\* C2: the seconds timestamp given to a note event is the running
\* accumulation of the track's delta-times, each converted at the tempo in
\* effect while it elapsed.
C2_TimestampIsAccumulation ==
    (dec.pc = "event" /\ (dec.eventType \div 16) * 16 \in {128, 144})
        => dec.timeInSeconds = dec.elapsed

\* the status byte a writer means at event i of track t
RECURSIVE StatusAt(_, _)
StatusAt(t, i) ==
    IF i = 0 THEN 0
    ELSE IF t[i].st # Running THEN t[i].st
    ELSE StatusAt(t, i - 1)

ExplicitTrack(t) == [i \in 1..Len(t) |-> [t[i] EXCEPT !.st = StatusAt(t, i)]]

\* the same file with every status byte written out
Explicit(file) ==
    [file EXCEPT !.tracks = [k \in 1..Len(file.tracks) |-> ExplicitTrack(file.tracks[k])]]

\* every event under running status continues a Note-On
RunningAfterNoteOn(file) ==
    \A k \in 1..Len(file.tracks) : \A i \in 1..Len(file.tracks[k]) :
        file.tracks[k][i].st = Running => StatusAt(file.tracks[k], i) = 144

HasRunning(file) ==
    \E k \in 1..Len(file.tracks) : \E i \in 1..Len(file.tracks[k]) :
        file.tracks[k][i].st = Running

\* C3: pitch/velocity pairs under running status after a Note-On decode to
\* the same notes as the same events written with explicit status bytes.
C3_RunningStatusEquivalent ==
    (Finished /\ HasRunning(src) /\ RunningAfterNoteOn(src))
        => Outcome(dec) = Outcome(parseMidiFile(Bytes(Explicit(src))))

StartTimes(ns) == {ns[i].startTime : i \in 1..Len(ns)}

StartingAt(ns, t) == LET At(n) == n.startTime = t IN SelectSeq(ns, At)

\* C4: the returned notes are in ascending startTime order, and the notes
\* of one startTime are in the order in which they were emitted.
C4_SortedStable ==
    dec.pc = "done" =>
        /\ \A i \in 1..(Len(dec.result.notes) - 1) :
               dec.result.notes[i].startTime <= dec.result.notes[i + 1].startTime
        /\ Len(dec.result.notes) = Len(dec.notes)
        /\ \A t \in StartTimes(dec.notes) :
               StartingAt(dec.result.notes, t) = StartingAt(dec.notes, t)

\* a decode whose emission order is not the returned order, and one with a tie
C4_Witness ==
    /\ dec.pc = "done"
    /\ Len(dec.notes) >= 2
    /\ dec.result.notes # dec.notes

NoteEnds(ns) == {ns[i].startTime + ns[i].duration : i \in 1..Len(ns)}

\* C5: the returned duration is the maximum of startTime + duration over
\* the returned notes, and 0 when there is none.
C5_DurationIsMaxEnd ==
    dec.pc = "done" =>
        dec.result.duration =
            (IF dec.result.notes = <<>> THEN 0 ELSE MaxOf(NoteEnds(dec.result.notes)))

\* the file with the Note-Off at event i of track k written as a Note-On of
\* velocity 0 on the same channel, same pitch, same delta-time
OffAsVelocityZero(file, k, i) ==
    [file EXCEPT !.tracks[k][i] =
        Ev(@.d, @.st + 16, <<@.data[1], 0>>)]

NoteOffs(file) ==
    UNION {{<<k, i>> : i \in {j \in 1..Len(file.tracks[k]) :
                                  file.tracks[k][j].st \in 128..143}} :
           k \in 1..Len(file.tracks)}

\* C6: a Note-On with velocity 0 is decoded as a Note-Off: it never opens a
\* record, and a file decodes to the same notes and duration when one of its
\* Note-Off events is written as a Note-On of velocity 0.
C6_VelocityZeroIsNoteOff ==
    /\ \A p \in DOMAIN dec.activeNotes : dec.activeNotes[p].velocity > 0
    /\ (Finished /\ src.frame.cut = 0) =>
           \A ki \in NoteOffs(src) :
               Outcome(parseMidiFile(Bytes(OffAsVelocityZero(src, ki[1], ki[2]))))
                   = Outcome(dec)

\* a finished decode in which a Note-Off closed a note, and one in which a
\* Note-On of velocity 0 did
C6_Witness ==
    /\ dec.pc = "done"
    /\ src.frame.cut = 0
    /\ NoteOffs(src) # {}
    /\ dec.result.notes # <<>>

\* the four bytes at offset o, as far as the buffer has them
TagAt(b, o) == [i \in 1..4 |-> IF o + i <= Len(b) THEN b[o + i] ELSE RangeError]

BadTagAtCursor ==
    \/ dec.pc = "header" /\ TagAt(buf, 0) # MThd
    \/ dec.pc = "track" /\ dec.track < dec.trackCount /\ TagAt(buf, dec.offset) # MTrk

\* C7: decode is all-or-nothing: a wrong header tag, a wrong tag of any
\* track chunk or a read past the end of the buffer ends parseMidiFile with
\* an error; a failed decode returns nothing and leaves midiData as it was,
\* whatever notes were closed before.
C7_AllOrNothing ==
    [][/\ BadTagAtCursor => dec'.pc = "failed"
       /\ dec'.pc \in {"event", "track", "done"} => dec'.maxRead < Len(buf)
       /\ dec'.pc = "failed" => (dec'.result = Null /\ midiData' = midiData)
       /\ dec.pc = "failed" => (dec'.pc = "alerted" /\ midiData' = midiData)
       /\ midiData' # midiData => (dec.pc = "done" /\ midiData' = dec.result)]_vars

\* the decode failed in a later track after a note had been closed
C7_Witness ==
    /\ dec.pc = "alerted"
    /\ dec.notes # <<>>
    /\ dec.track >= 1
    /\ midiData = Null

\* a status byte that is no channel message, Meta or SysEx: 0xF1-0xF6, 0xF8-0xFE
UndefinedStatus == (241..246) \cup (248..254)

UndefinedStatusAtCursor ==
    /\ InLoop
    /\ EventHead(buf, dec).ok
    /\ EventHead(buf, dec).eventType \in UndefinedStatus

----------------------------------------------------------------------------
(* Properties of the playback loop *)

\* C9: on every tick, every note that is active at newTime and is not in the
\* dispatched set is handed to playNote and added to the dispatched set,
\* whatever other notes are active or were dispatched before.
C9_ActiveNoteIsDispatched ==
    [][Frame =>
          \A i \in NoteIds :
              (IsActive(midiData.notes[i], newTime') /\ i \notin scheduledNotes)
                  => (i \in played' /\ i \in scheduledNotes')]_vars

\* C10: between two seeks, stops or restarts no note is handed to playNote
\* more than once, through any ticks, pauses, resumes and speed changes.
C10_DispatchedAtMostOnce ==
    Loaded => \A i \in NoteIds : dispatchCount[i] <= 1

\* a note dispatched by an earlier tick is still sounding after a pause, a
\* resume and a further tick inside its interval, and was not played again
C10_Witness ==
    /\ Loaded /\ isPlaying
    /\ currentlyPlayingNotes = {}
    /\ played = {}
    /\ \E i \in NoteIds :
           /\ dispatchCount[i] = 1
           /\ i \in scheduledNotes
           /\ IsActive(midiData.notes[i], newTime)
           /\ newTime = currentTime
           /\ newTime > midiData.notes[i].startTime

\* C11: after handleSeek, in any state and in particular while playing, every
\* note whose interval contains the play-head of the next tick is handed to
\* playNote by that tick, whatever was sounding before the seek.
C11_ActiveNoteDispatchedAfterSeek ==
    [][(Frame /\ afterSeek.pending) =>
          \A i \in NoteIds :
              IsActive(midiData.notes[i], newTime') => i \in played']_vars

\* a step of handleSeek, told by the time it records
SeekStep == afterSeek'.pending /\ afterSeek' # afterSeek

\* time clamped into [0, duration], and 0 without a file
Clamped(time) ==
    IF ~Loaded THEN 0
    ELSE IF time < 0 THEN 0
    ELSE IF time > midiData.duration THEN midiData.duration
    ELSE time

\* C12: handleSeek(time) sets currentTime to time clamped into [0, duration]
\* (0 without a file), empties the dispatched set and the active-pitch set,
\* has the sink stop every voice it holds, and leaves isPlaying, speed and
\* the note list as they were.
C12_SeekEffect ==
    [][SeekStep =>
          /\ currentTime' = Clamped(afterSeek'.time)
          /\ scheduledNotes' = {}
          /\ activeNotes' = {}
          /\ Registered(audioEngine') = {}
          /\ VoiceIds(audioEngine') = VoiceIds(audioEngine) \ Registered(audioEngine)
          /\ UNCHANGED <<isPlaying, speed, midiData>>]_vars

\* a seek past the end while playing, with keys lit and a key's voice held
\* by the sink before it: the play-head is at the end, nothing is lit, the
\* sink holds nothing
C12_Witness ==
    /\ Loaded /\ isPlaying /\ audioReady
    /\ afterSeek.pending
    /\ afterSeek.time > midiData.duration
    /\ currentTime = midiData.duration
    /\ activeNotes = {}
    /\ Registered(audioEngine) = {}
    /\ \E p \in Pitch : audioEngine.timers[p] > 0

\* C13: handleStop leaves isPlaying false, currentTime 0, the dispatched set
\* empty and the active-pitch set empty, and from then until Play is pressed
\* no tick, queued before the stop or after it, changes currentTime, the
\* dispatched set or the active-pitch set.
C13_StopHaltsTicks ==
    [][/\ handleStop =>
              (~isPlaying' /\ currentTime' = 0 /\ scheduledNotes' = {} /\ activeNotes' = {})
       /\ (~isPlaying /\ (Frame \/ render)) =>
              UNCHANGED <<currentTime, scheduledNotes, activeNotes>>]_vars

\* a step that runs the updater of a tick
UpdaterRuns == Frame \/ render

\* C14: a tick whose newTime reaches the duration leaves currentTime at
\* exactly the duration and isPlaying false, no tick moves the play-head
\* while isPlaying is false, and 0 <= currentTime <= duration always.
C14_PlayHeadInRange ==
    /\ [](0 <= currentTime /\ currentTime <= DurationOrZero)
    /\ [][(UpdaterRuns /\ ~queued.superseded /\ newTime' >= midiData.duration) =>
              (currentTime' = midiData.duration /\ ~isPlaying')]_vars
    /\ [][(UpdaterRuns /\ ~isPlaying) => currentTime' = currentTime]_vars

\* a tick has overshot the end of a song: the play-head is at the end and
\* playback has stopped
C14_Witness ==
    /\ Loaded /\ midiData.duration > 0
    /\ newTime > midiData.duration
    /\ currentTime = midiData.duration
    /\ ~isPlaying
    /\ played = {}
    /\ ~afterSeek.pending

----------------------------------------------------------------------------
(* Properties of the sink *)

\* the voices of pitch p that sound and have not been told to stop
HeldAt(p) == {v \in Held(audioEngine) : v.pitch = p}

\* C15: at most one voice per pitch: a voice started for pitch p by a key
\* press (noteOn) or by file playback (playNote with a duration) finds every
\* earlier voice of p stopped or released, in any interleaving of the two.
C15_OneVoicePerPitch ==
    \A p \in Pitch : Cardinality(HeldAt(p)) <= 1

\* the handlers that call stopAllNotes: Stop, Seek and Pause
CallsStopAllNotes == handleStop \/ Seek \/ (isPlaying /\ handlePlayPause)

\* C16: when stopAllNotes has returned, no voice started by an earlier noteOn
\* or playNote call is still sounding, whether a key press or file playback
\* with a duration started it.
C16_StopAllSilences ==
    [][CallsStopAllNotes => Held(audioEngine') = {}]_vars

----------------------------------------------------------------------------
(* Properties of the rhythm game *)

Counted == player.gameScore.perfect + player.gameScore.good + player.gameScore.miss

\* C17: in play mode no note is counted twice: the sets of hit and of missed
\* notes are disjoint and perfect + good + miss never exceeds the number of
\* notes of the file, whatever the order of key events and ticks
C17_NoteConsumedOnce ==
    player.midiData # Null =>
        /\ player.hitNotes \cap player.missedNotes = {}
        /\ Counted <= Len(player.midiData.notes)

\* the gain the scoring rule gives in integers: base times 10 + floor(c / 10), over 10
ClaimedGain(rating, c) == (baseScore(rating) * (10 + c \div 10)) \div 10

\* C18: a hit rated r at combo c adds floor(base(r) * (10 + floor(c / 10)) / 10)
\* to the score, and the score never decreases
C18_ScoreGain ==
    [][player'.gameScore # player.gameScore =>
          /\ player'.gameScore.score =
                 player.gameScore.score
                     + ClaimedGain(player'.recentHits.rating, player.gameScore.combo)
          /\ player'.gameScore.score >= player.gameScore.score]_vars

\* the event counted by this step was rated r
Rated(r) == Counted' > Counted /\ player'.recentHits.rating = r

\* C19: combo is 0 after every event rated miss (a key hit or a note the tick
\* marked missed), one more than before after every hit rated perfect or good,
\* and maxCombo >= combo in every state
C19_ComboRule ==
    /\ [](player.gameScore.maxCombo >= player.gameScore.combo)
    /\ [][Rated("miss") => player'.gameScore.combo = 0]_vars
    /\ [][(Rated("perfect") \/ Rated("good")) =>
              player'.gameScore.combo = player.gameScore.combo + 1]_vars

\* a hit rated perfect raised the combo and a later key hit rated miss reset it
C19_Witness ==
    /\ player.isPlaying
    /\ player.recentHits.rating = "miss"
    /\ player.recentHits.noteId \in player.hitNotes
    /\ player.gameScore.perfect > 0
    /\ player.gameScore.combo = 0
    /\ player.gameScore.maxCombo > 0

\* a key event for pitch acts on the player: a key of the keyboard goes down,
\* the key on the screen is clicked or a MIDI Note On arrives
KeyEvent(pitch) ==
    \/ handleKeyDown(pitch)
    \/ MidiPlayer_handleKeyPress(pitch)
    \/ handleMidiNoteOn(pitch)

\* no note of the pitch that is neither hit nor missed lies within the miss window
NoUnconsumedNear(pitch) ==
    Candidates(pitch, player.currentTime, player.hitNotes, player.missedNotes) = {}

\* C20: in play mode while playing, a key event for a pitch with no unconsumed
\* note of that pitch within the miss window counts as a miss: miss grows by
\* one and combo becomes 0
C20_StrayKeyIsMiss ==
    [][\A pitch \in GamePitches :
          (/\ player.mode = "play" /\ player.isPlaying
           /\ NoUnconsumedNear(pitch)
           /\ KeyEvent(pitch)) =>
              /\ player'.gameScore.miss = player.gameScore.miss + 1
              /\ player'.gameScore.combo = 0]_vars

\* the notes neither hit nor missed whose miss window has elapsed at time t
Overdue(t) ==
    {i \in GameNoteIds :
        /\ i \notin player.hitNotes /\ i \notin player.missedNotes
        /\ GameNote(i).startTime + TIMING_WINDOWS.miss < t}

\* C21: a tick to newTime marks missed exactly the notes neither hit nor
\* missed whose startTime + 0.3 s is below newTime, adds one to miss for each
\* of them and resets combo; a note already hit is never marked missed
C21_TickMarksMissed ==
    [][\A dt \in 1..MaxGameDt :
          MidiPlayer_tick(dt) =>
              /\ player'.missedNotes =
                     player.missedNotes \cup Overdue(player.currentTime + dt)
              /\ player'.gameScore.miss =
                     player.gameScore.miss
                         + Cardinality(Overdue(player.currentTime + dt))
              /\ Overdue(player.currentTime + dt) # {} => player'.gameScore.combo = 0
              /\ player'.missedNotes \cap player.hitNotes = {}]_vars

----------------------------------------------------------------------------
(* Further properties of the decoder *)

\* events written with a one-byte delta-time and their own status byte
\* that set no tempo
PlainEvent(e) ==
    /\ Len(e.d) = 1
    /\ e.st # Running
    /\ ~(e.st = 255 /\ e.data[1] = 81)

PlainFile(file) ==
    /\ file.frame = WellFramed
    /\ \A k \in 1..Len(file.tracks) : \A i \in 1..Len(file.tracks[k]) :
           PlainEvent(file.tracks[k][i])

Opens(e) == e.st \in 144..159 /\ e.data[2] > 0

Closes(e) == e.st \in 128..143 \/ (e.st \in 144..159 /\ e.data[2] = 0)

Touches(e, p) == (Opens(e) \/ Closes(e)) /\ e.data[1] = p

\* the tick position of event i of track t
RECURSIVE TickOf(_, _)
TickOf(t, i) == IF i = 0 THEN 0 ELSE TickOf(t, i - 1) + t[i].d[1]

\* i is the most recent Note-On of the pitch of event j, and still open at j
PairedWith(t, i, j) ==
    /\ i < j /\ Opens(t[i]) /\ Closes(t[j]) /\ t[i].data[1] = t[j].data[1]
    /\ \A m \in (i + 1)..(j - 1) : ~Touches(t[m], t[j].data[1])

\* the note the pair (i, j) of track t stands for, at the default tempo
PairNote(t, i, j) ==
    [pitch |-> t[j].data[1],
     startTime |-> TickOf(t, i) * 500000,
     duration |-> (TickOf(t, j) - TickOf(t, i)) * 500000,
     velocity |-> t[i].data[2],
     channel |-> t[i].st % 16]

\* the pairs of one track in the order of their closing events
PairsOf(t) ==
    Flatten([j \in 1..Len(t) |->
                IF \E i \in 1..Len(t) : PairedWith(t, i, j)
                THEN <<PairNote(t, CHOOSE i \in 1..Len(t) : PairedWith(t, i, j), j)>>
                ELSE <<>>])

PairsOfFile(file) == Flatten([k \in 1..Len(file.tracks) |-> PairsOf(file.tracks[k])])

\* C22: the notes a decode emits are, track by track, exactly the pairs of
\* the most recent still-open Note-On of a pitch and the next Note-Off (or
\* Note-On of velocity 0) of that pitch: an unmatched Note-Off yields
\* nothing, a replaced Note-On yields nothing, and a note open at the end of
\* its track is neither emitted nor closed by a later track
C22_NotesArePairs ==
    (dec.pc = "done" /\ PlainFile(src)) => dec.notes = PairsOfFile(src)

\* the first Note-On of track 1 was replaced by a second one, and track 2
\* holds a Note-Off with no open record
C22_Witness ==
    /\ dec.pc = "done" /\ PlainFile(src)
    /\ Len(src.tracks) = 2
    /\ src.tracks[1] = <<On60, On60, Off60>>
    /\ src.tracks[2] = <<Off60>>
    /\ Len(dec.notes) = 1
    /\ dec.notes[1].startTime = 2 * 500000

\* C23: every track starts from the default tempo of 500000 microseconds per
\* quarter note, and a Set Tempo of one track does not change the tempo that
\* converts the events of another: the later tracks of the files here hold no
\* Set Tempo, so their events are converted at the default tempo
C23_TempoPerTrack ==
    (dec.pc = "event" /\ dec.track >= 1 /\ src.frame = WellFramed) =>
        /\ dec.currentTempo = 500000
        /\ (dec.eventType \div 16) * 16 \in {128, 144} =>
               dec.timeInSeconds = ticksToSeconds(dec.time, dec.ticksPerBeat, 500000)

\* C24: the time of the TempoChange recorded for a Set Tempo is the tick
\* position of the event converted with the tempo in effect before it
C24_TempoChangeAtOldTempo ==
    [][Len(dec'.tempoChanges) = Len(dec.tempoChanges) + 1 =>
          dec'.tempoChanges[Len(dec'.tempoChanges)].time =
              ticksToSeconds(dec'.time, dec.ticksPerBeat, dec.currentTempo)]_vars

\* C25: after a header chunk of declared length L the first track chunk tag
\* is read at offset 8 + L, so that the L - 6 extra bytes of a longer header
\* are skipped
C25_HeaderLengthHonoured ==
    [][(dec.pc = "header" /\ dec'.pc = "track") =>
          dec'.offset = 8 + getUint32(buf, 4)]_vars

\* the number of bytes of the quantity at offset o: up to the first byte
\* whose high bit is clear
RECURSIVE VlqLength(_, _)
VlqLength(b, o) == IF getUint8(b, o) < 128 THEN 1 ELSE 1 + VlqLength(b, o + 1)

\* the sum of (b_i & 0x7F) * 128^(n - 1 - i) over the first n bytes at offset o
RECURSIVE VlqSum(_, _, _)
VlqSum(b, o, n) ==
    IF n = 0 THEN 0 ELSE VlqSum(b, o, n - 1) * 128 + (getUint8(b, o + n - 1) % 128)

\* C26: readVariableLength returns the non-negative value of the quantity
\* and the number n of its bytes, also for five bytes.  The value v of n
\* bytes is stated through its two parts, v div 128 the value of the first
\* n - 1 bytes and v mod 128 the last byte
C26_VariableLengthValue ==
    InLoop =>
        LET v == readVariableLength(buf, dec.offset)
        IN  v.ok =>
                /\ v.bytesRead = VlqLength(buf, dec.offset)
                /\ v.value >= 0
                /\ v.value \div 128 = VlqSum(buf, dec.offset, v.bytesRead - 1)
                /\ v.value % 128 = getUint8(buf, dec.offset + v.bytesRead - 1)

----------------------------------------------------------------------------
(* Further properties of the piano keys and the audio engine *)

\* the voice of a pressed key of this pitch is sounding: the key is down
KeyDown(p) == \E v \in Held(audioEngine) : v.pitch = p /\ ~v.timed

\* a note of the file of this pitch is sounding at the play-head
FileSounding(p) ==
    /\ Loaded /\ isPlaying /\ p \in ActivePitches(currentTime)
    /\ \E v \in audioEngine.voices : v.pitch = p /\ v.timed

\* C27: key presses and file playback do not lose each other's entries of
\* activeNotes: a tick keeps the pitch of a key that is down, and the release
\* of a key keeps a pitch that a note of the file is sounding
C27_ActiveNotesShared ==
    [][/\ (Frame \/ render) =>
              \A p \in Pitch : (KeyDown(p) /\ p \in activeNotes) => p \in activeNotes'
       /\ \A p \in KeyPitches :
              (handleKeyRelease(p) /\ KeyDown(p) /\ FileSounding(p) /\ p \in activeNotes)
                  => p \in activeNotes']_vars

\* C28: a voice started by noteOn stays registered for its pitch until it is
\* released, so that the next noteOff of the pitch releases it, whatever the
\* order of noteOn, noteOff and the clean-up timers
C28_VoiceStaysRegistered ==
    \A v \in Held(audioEngine) :
        ~v.timed => audioEngine.activeOscillators[v.pitch] = v.id

\* C29: parseMidiFile terminates on every buffer: every iteration of the
\* event loop moves the cursor forward, and the decode ends with a result
\* or with an error
C29_ParseTerminates ==
    /\ [][(dec.pc = "event" /\ dec'.pc = "event") => dec'.offset > dec.offset]_vars
    /\ <>Finished

\* C30: when the event loop of a track has ended the cursor is at trackEnd,
\* where the declared length of the track ends, and the next chunk tag is
\* read there
C30_CursorAtTrackEnd ==
    (dec.pc = "track" /\ dec.track >= 1) => dec.offset = dec.trackEnd

====
